---- MODULE Spec2Model ----
(***************************************************************************)
(* Model of the GA4 audit run of src/app.py: the nine blocking report      *)
(* queries of one run, the aggregation of their rows, the rendering of     *)
(* the results, the row-file (CSV) data and the insight rules (Spec,       *)
(* SpecWide), and of the spreadsheet export with its credential handling   *)
(* (SpecExport).                                                           *)
(*                                                                         *)
(* Numbers with two decimals (sessions_per_user, percent_unassigned, the   *)
(* funnel rates) are held in hundredths: 1.5 is 150, 33.33 % is 3333.      *)
(* total_revenue is held in cents.  A metric value of the API is held as   *)
(* the integer that int()/float() reads from its decimal string.           *)
(***************************************************************************)
EXTENDS Integers, Sequences, FiniteSets, TLC

VARIABLES
    pc,                         \* position of the script within one run
    issued,                     \* the report queries posted so far in this run
    response,                   \* fetch_metric_report: the last response body
    error,                      \* the st.error message shown by this run
    sessions_users_data, total_sessions, total_users, sessions_per_user,
    channel_data, unassigned_sessions, total_sessions_from_channels,
    percent_unassigned,
    unassigned_medium_data, unassigned_mediums,
    transactions_revenue_data, total_transactions, total_revenue,
    transaction_id_data, duplicate_transaction_ids,
    event_data, funnel_data,
    audit_data,                 \* <<>> until created, then <<the summary>>
    display,                    \* the result sections rendered by this run
    rates,                      \* <<>> or <<the four funnel rates shown>>
    csv_audit_data,             \* the rows handed to the CSV download
    insights, healthy,          \* the insight list, the "all healthy" message
    clicked,                    \* the button whose click started this script run
    sheet_url,                  \* push_to_google_sheet: the locator it was given
    args,                       \* push_to_google_sheet: the results it was given
    sheets_creds,               \* st.session_state.sheets_creds: <<>> is None
    auth,                       \* the last call of get_google_sheets_auth
    xpc,                        \* position within push_to_google_sheet
    sheet_id,                   \* <<>> or <<the identifier extracted>>
    calls,                      \* the calls this export made to Google
    book,                       \* the spreadsheet: worksheet title -> cells written
    sheet_name,                 \* the title made from the timestamp, "" before
    worksheet,                  \* the title of the worksheet being written, "" before
    todo,                       \* the worksheet calls still to make
    export_error,               \* the st.error message of this export
    push_result                 \* <<>> or <<what push_to_google_sheet returned>>

section1 == <<sessions_users_data, total_sessions, total_users, sessions_per_user>>
section2 == <<channel_data, unassigned_sessions, total_sessions_from_channels,
              percent_unassigned, unassigned_medium_data, unassigned_mediums>>
section3 == <<transactions_revenue_data, total_transactions, total_revenue,
              transaction_id_data, duplicate_transaction_ids>>
section4 == <<event_data, funnel_data>>
output == <<audit_data, display, rates, csv_audit_data, insights, healthy>>
run == <<pc, issued, response, error, section1, section2, section3, section4, output>>
export == <<sheet_url, args, sheets_creds, auth, xpc, sheet_id, calls, book, sheet_name,
            worksheet, todo, export_error, push_result>>
vars == <<run, clicked, export>>

----------------------------------------------------------------------------
(* Bounds of the environment.                                              *)

\* baseline row: sessions in 0..MaxSessions, totalUsers in 0..MaxUsers
MaxSessions == 5
MaxUsers == 2
\* the wide range of the arithmetic specification SpecWide
MaxWide == 40

NoError == ""

\* one row of a report: {"dimensionValues": [...], "metricValues": [...]}
Row(dims, mets) == [dimensionValues |-> dims, metricValues |-> mets]

\* a response body that parsed and carries no error envelope
Result(has_rows, rows) ==
    [json |-> TRUE, has_error |-> FALSE, has_message |-> FALSE, message |-> "",
     has_rows |-> has_rows, rows |-> rows]

\* the value of a response variable before its fetch
NotFetched == Result(FALSE, <<>>)

\* response bodies on which a fetch fails: not JSON, or an error envelope
\* with or without a message
FailedResponses ==
    { [json |-> FALSE, has_error |-> FALSE, has_message |-> FALSE, message |-> "",
       has_rows |-> FALSE, rows |-> <<>>],
      [json |-> TRUE, has_error |-> TRUE, has_message |-> TRUE,
       message |-> "Quota exceeded", has_rows |-> FALSE, rows |-> <<>>],
      [json |-> TRUE, has_error |-> TRUE, has_message |-> FALSE, message |-> "",
       has_rows |-> FALSE, rows |-> <<>>] }

\* the responses a query can get: a failure, no "rows" key, or one of rowsets
Responses(rowsets) ==
    FailedResponses \cup {Result(FALSE, <<>>)} \cup {Result(TRUE, r) : r \in rowsets}

\* the row lists of a grouped report over the sample rows: every ordering of
\* every subset, a dimension value appearing in at most one row
Orderings(sample) ==
    { s \in UNION { [1..n -> sample] : n \in 0..Cardinality(sample) } :
        \A i, j \in 1..Len(s) : i # j => s[i].dimensionValues # s[j].dimensionValues }

BaselineRows(S, U) == { <<Row(<<>>, <<s, u>>)>> : s \in S, u \in U }

ChannelSample ==
    { Row(<<"Unassigned">>, <<1>>), Row(<<"Organic Search">>, <<2>>) }
MediumSample ==
    { Row(<<"(not set)">>, <<1>>), Row(<<"referral">>, <<2>>) }
DuplicateSample ==
    { Row(<<"TXN1">>, <<3>>), Row(<<"TXN2">>, <<1>>) }
TransactionsSample == { <<Row(<<>>, <<2, 3998>>)>> }

funnel_events == <<"view_item", "add_to_cart", "begin_checkout", "purchase">>

\* the event count a funnel query returns when it returns a row
FunnelSample(event) ==
    CASE event = "view_item" -> 1000
      [] event = "add_to_cart" -> 400
      [] event = "begin_checkout" -> 100
      [] OTHER -> 20

----------------------------------------------------------------------------
(* fetch_metric_report and the arithmetic of the aggregation.              *)

\* FetchFailure without the check of the error envelope
FetchFailure_IgnoresEnvelope(resp) ==
    IF ~resp.json THEN "Invalid JSON response from GA4 API." ELSE NoError

\* the st.error message of fetch_metric_report, NoError when it returns
FetchFailure(resp) ==
    IF ~resp.json THEN "Invalid JSON response from GA4 API."
    ELSE IF resp.has_error
         THEN "GA4 API error: " \o
              (IF resp.has_message THEN resp.message ELSE "Unknown error")
         ELSE NoError

\* `"rows" in data and data["rows"]`
HasRows(data) == data.has_rows /\ data.rows # <<>>

\* data.get("rows", [])
GetRows(data) == IF data.has_rows THEN data.rows ELSE <<>>

RECURSIVE GCD(_, _)
GCD(a, b) == IF b = 0 THEN a ELSE GCD(b, a % b)

RECURSIVE IsPow2(_)
IsPow2(n) == n = 1 \/ (n > 1 /\ n % 2 = 0 /\ IsPow2(n \div 2))

\* whether the double num/den is the exact quotient (den > 0)
ExactQuotient(num, den) == IsPow2(den \div GCD(num, den))

\* round(x, 2) in hundredths, x the double computed for scale*num/(100*den):
\* the nearest hundredth; on a tie the even one when x is exact, and else the
\* side `up` on which the double fell
PyRound2(num, den, scale, up) ==
    LET q == (scale * num) \div den
        r == (scale * num) % den
    IN  IF 2 * r < den THEN q
        ELSE IF 2 * r > den THEN q + 1
        ELSE IF ExactQuotient(num, den) THEN (IF q % 2 = 0 THEN q ELSE q + 1)
        ELSE IF up THEN q + 1 ELSE q

\* the sides a rounding can take: both on a tie of an inexact double
Sides(num, den, scale) ==
    IF den > 0 /\ 2 * ((scale * num) % den) = den /\ ~ExactQuotient(num, den)
    THEN BOOLEAN ELSE {FALSE}

\* SessionsPerUser cutting the quotient off after two decimals
SessionsPerUser_Truncated(sessions, users, up) ==
    IF users > 0 THEN (100 * sessions) \div users ELSE 0

\* round(total_sessions / total_users, 2) if total_users > 0 else 0
SessionsPerUser(sessions, users, up) ==
    IF users > 0 THEN PyRound2(sessions, users, 100, up) ELSE 0

\* PercentUnassigned without the factor 100: the fraction, not the percentage
PercentUnassigned_Fraction(unassigned, total, up) ==
    IF total > 0 THEN PyRound2(unassigned, total, 100, up) ELSE 0

\* round((unassigned_sessions / total_sessions) * 100, 2) if total_sessions > 0 else 0
PercentUnassigned(unassigned, total, up) ==
    IF total > 0 THEN PyRound2(unassigned, total, 10000, up) ELSE 0

\* UnassignedSessions with the assignment outside the test of the channel:
\* the session count of the last row
UnassignedSessions_LastRow(rows) ==
    IF rows = <<>> THEN 0 ELSE rows[Len(rows)].metricValues[1]

\* the loop of lines 443-448: the session count of the row of channel
\* "Unassigned" (of the last such row), 0 without one
RECURSIVE UnassignedSessions(_)
UnassignedSessions(rows) ==
    IF rows = <<>> THEN 0
    ELSE LET row == rows[Len(rows)]
         IN  IF row.dimensionValues[1] = "Unassigned"
             THEN row.metricValues[1]
             ELSE UnassignedSessions(SubSeq(rows, 1, Len(rows) - 1))

\* total_sessions_from_channels: the sum of the rows' session counts
RECURSIVE SumSessions(_)
SumSessions(rows) ==
    IF rows = <<>> THEN 0
    ELSE rows[Len(rows)].metricValues[1] + SumSessions(SubSeq(rows, 1, Len(rows) - 1))

\* MediumBreakdown starting at the second row
MediumBreakdown_SkipsFirst(rows) ==
    [i \in 1..(Len(rows) - 1) |->
        [medium |-> rows[i + 1].dimensionValues[1],
         sessions |-> rows[i + 1].metricValues[1]]]

\* the loop of lines 459-463
MediumBreakdown(rows) ==
    [i \in 1..Len(rows) |->
        [medium |-> rows[i].dimensionValues[1], sessions |-> rows[i].metricValues[1]]]

\* DuplicateTransactions keeping only the rows whose count exceeds 1
DuplicateTransactions_Refiltered(rows) ==
    LET IsDuplicate(row) == row.metricValues[1] > 1
        kept == SelectSeq(rows, IsDuplicate)
    IN  [i \in 1..Len(kept) |->
            [transaction_id |-> kept[i].dimensionValues[1],
             count |-> kept[i].metricValues[1]]]

\* the loop of lines 486-490
DuplicateTransactions(rows) ==
    [i \in 1..Len(rows) |->
        [transaction_id |-> rows[i].dimensionValues[1], count |-> rows[i].metricValues[1]]]

\* the count of a single-row report, 0 without a row (lines 506-509)
EventCount(data) == IF HasRows(data) THEN data.rows[1].metricValues[1] ELSE 0

\* round((b / a) * 100, 2) if a > 0 else 0
Rate(b, a, up) == IF a > 0 THEN PyRound2(b, a, 10000, up) ELSE 0

\* lines 591-595: the four rates, computed only when view_item > 0
FunnelRates(f, up) ==
    IF f["view_item"] > 0
    THEN << [view_to_cart |-> PyRound2(f["add_to_cart"], f["view_item"], 10000, up[1]),
             cart_to_checkout |-> Rate(f["begin_checkout"], f["add_to_cart"], up[2]),
             checkout_to_purchase |-> Rate(f["purchase"], f["begin_checkout"], up[3]),
             view_to_purchase |-> PyRound2(f["purchase"], f["view_item"], 10000, up[4])] >>
    ELSE <<>>

\* the sides of the four roundings of FunnelRates
RateSides(f) ==
    { up \in [1..4 -> BOOLEAN] :
        /\ up[1] \in Sides(f["add_to_cart"], f["view_item"], 10000)
        /\ up[2] \in Sides(f["begin_checkout"], f["add_to_cart"], 10000)
        /\ up[3] \in Sides(f["purchase"], f["begin_checkout"], 10000)
        /\ up[4] \in Sides(f["purchase"], f["view_item"], 10000) }

\* thresholds of the insight rules, in hundredths
LowSessionsPerUser == 150
HighPercentUnassigned == 2000

LowEngagement == "Low sessions per user - Consider improving user engagement"
HighUnassigned == "High unassigned traffic - Review UTM parameters and attribution"
DuplicatesDetected == "Duplicate transactions detected - Review e-commerce implementation"
NoPurchases == "No purchase events - Check e-commerce tracking setup"

\* Insights as an if/elif chain: only the first rule that matches
Insights_FirstMatchOnly(spu, pct, dups, f) ==
    IF spu < LowSessionsPerUser THEN <<LowEngagement>>
    ELSE IF pct > HighPercentUnassigned THEN <<HighUnassigned>>
    ELSE IF Len(dups) > 0 THEN <<DuplicatesDetected>>
    ELSE IF f["purchase"] = 0 THEN <<NoPurchases>>
    ELSE <<>>

\* lines 661-669
Insights(spu, pct, dups, f) ==
    LET i1 == IF spu < LowSessionsPerUser THEN <<LowEngagement>> ELSE <<>>
        i2 == IF pct > HighPercentUnassigned THEN Append(i1, HighUnassigned) ELSE i1
        i3 == IF Len(dups) > 0 THEN Append(i2, DuplicatesDetected) ELSE i2
    IN  IF f["purchase"] = 0 THEN Append(i3, NoPurchases) ELSE i3

\* a cell of the CSV Value column: a number and how it is written
Cell(n, fmt) == [n |-> n, fmt |-> fmt]

\* lines 626-638
BaseRows(ts, tu, spu, us, pct, tt, tr, f) ==
    << <<"Total Sessions (L90)", Cell(ts, "int")>>,
       <<"Total Users (L90)", Cell(tu, "int")>>,
       <<"Sessions per User", Cell(spu, "hundredths")>>,
       <<"Unassigned Sessions (L90)", Cell(us, "int")>>,
       <<"Percent Unassigned Sessions", Cell(pct, "percent")>>,
       <<"Total Transactions (L90)", Cell(tt, "int")>>,
       <<"Total Revenue (L90)", Cell(tr, "cents")>>,
       <<"View Item Events", Cell(f["view_item"], "int")>>,
       <<"Add to Cart Events", Cell(f["add_to_cart"], "int")>>,
       <<"Begin Checkout Events", Cell(f["begin_checkout"], "int")>>,
       <<"Purchase Events", Cell(f["purchase"], "int")>> >>

\* lines 641-642
MediumRows(mediums) ==
    [i \in 1..Len(mediums) |->
        <<"Unassigned - " \o mediums[i].medium, Cell(mediums[i].sessions, "int")>>]

\* lines 645-646
DuplicateRows(dups) ==
    [i \in 1..Len(dups) |->
        <<"Duplicate Transaction - " \o dups[i].transaction_id, Cell(dups[i].count, "int")>>]

\* CsvRows with the two loops in the other order
CsvRows_DuplicatesFirst(base, mediums, dups) ==
    <<  <<"Metric", "Value">> >> \o base \o DuplicateRows(dups) \o MediumRows(mediums)

\* the rows of the DataFrame of line 648 under its columns
CsvRows(base, mediums, dups) ==
    <<  <<"Metric", "Value">> >> \o base \o MediumRows(mediums) \o DuplicateRows(dups)

----------------------------------------------------------------------------
(* The report queries, in the order of the script.                         *)

Query(metrics, dimensions, filter) ==
    [metrics |-> metrics, dimensions |-> dimensions, filter |-> filter]

SessionsUsersQuery == Query(<<"sessions", "totalUsers">>, <<>>, "")
ChannelQuery == Query(<<"sessions">>, <<"defaultChannelGrouping">>, "")
UnassignedMediumQuery ==
    Query(<<"sessions">>, <<"sessionMedium">>, "defaultChannelGrouping = Unassigned")
TransactionsRevenueQuery == Query(<<"transactions", "totalRevenue">>, <<>>, "")
TransactionIdQuery == Query(<<"transactions">>, <<"transactionId">>, "transactions > 1")
EventQuery(event) == Query(<<"eventCount">>, <<>>, "eventName = " \o event)

----------------------------------------------------------------------------
(* The state machine.                                                      *)

\* the script's names before a run has set them
NoRun ==
    /\ issued = <<>>
    /\ response = NotFetched
    /\ error = NoError
    /\ sessions_users_data = NotFetched
    /\ total_sessions = 0
    /\ total_users = 0
    /\ sessions_per_user = 0
    /\ channel_data = NotFetched
    /\ unassigned_sessions = 0
    /\ total_sessions_from_channels = 0
    /\ percent_unassigned = 0
    /\ unassigned_medium_data = NotFetched
    /\ unassigned_mediums = <<>>
    /\ transactions_revenue_data = NotFetched
    /\ total_transactions = 0
    /\ total_revenue = 0
    /\ transaction_id_data = NotFetched
    /\ duplicate_transaction_ids = <<>>
    /\ event_data = NotFetched
    /\ funnel_data = <<>>
    /\ audit_data = <<>>
    /\ display = <<>>
    /\ rates = <<>>
    /\ csv_audit_data = <<>>
    /\ insights = <<>>
    /\ healthy = FALSE

\* no call of get_google_sheets_auth yet
NoAuthCall == [called |-> FALSE, before |-> <<>>, refreshes |-> <<>>,
               after |-> <<>>, ret |-> <<>>]

\* the results handed to push_to_google_sheet
Args(a, f, m, d) ==
    [audit_data |-> a, funnel_data |-> f, unassigned_mediums |-> m,
     duplicate_transaction_ids |-> d]

\* push_to_google_sheet is not running
NoExport ==
    /\ sheet_url = <<>>
    /\ args = Args(<<>>, <<>>, <<>>, <<>>)
    /\ sheets_creds = <<>>
    /\ auth = NoAuthCall
    /\ xpc = "none"
    /\ sheet_id = <<>>
    /\ calls = <<>>
    /\ book = <<>>
    /\ sheet_name = ""
    /\ worksheet = ""
    /\ todo = <<>>
    /\ export_error = NoError
    /\ push_result = <<>>

Init ==
    /\ pc = "idle"
    /\ clicked = "none"
    /\ NoRun
    /\ NoExport

\* a script run starts from the top: nothing of an earlier run is left
FreshRun ==
    /\ issued' = <<>>
    /\ response' = NotFetched
    /\ error' = NoError
    /\ sessions_users_data' = NotFetched
    /\ total_sessions' = 0
    /\ total_users' = 0
    /\ sessions_per_user' = 0
    /\ channel_data' = NotFetched
    /\ unassigned_sessions' = 0
    /\ total_sessions_from_channels' = 0
    /\ percent_unassigned' = 0
    /\ unassigned_medium_data' = NotFetched
    /\ unassigned_mediums' = <<>>
    /\ transactions_revenue_data' = NotFetched
    /\ total_transactions' = 0
    /\ total_revenue' = 0
    /\ transaction_id_data' = NotFetched
    /\ duplicate_transaction_ids' = <<>>
    /\ event_data' = NotFetched
    /\ funnel_data' = <<>>
    /\ audit_data' = <<>>
    /\ display' = <<>>
    /\ rates' = <<>>
    /\ csv_audit_data' = <<>>
    /\ insights' = <<>>
    /\ healthy' = FALSE

\* the "Run GA4 Audit V2" button: the script reruns from the top, with
\* nothing of an earlier run left; st.button returns True and the script
\* reaches section 1
ClickRunAudit ==
    /\ pc \in {"idle", "stopped", "rendered"}
    /\ pc' = "sessions_users"
    /\ clicked' = "run_audit"
    /\ FreshRun
    /\ UNCHANGED export

\* the "Push to Google Sheets" button, which a rendered report shows when a
\* sheet URL is entered (lines 607-608).  Its click reruns the script from the
\* top; in that run the "Run GA4 Audit V2" button returns False (line 380), so
\* the block of lines 382-675 is skipped: nothing of the report is rendered,
\* line 608 is not reached and push_to_google_sheet is not called.
ClickPushToSheets ==
    /\ pc = "rendered"
    /\ pc' = "idle"
    /\ clicked' = "push_to_sheets"
    /\ FreshRun
    /\ UNCHANGED export

\* Post issuing the query a second time when its response is a failure
Post_RetriesFailure(query, resp) ==
    /\ issued' = (IF FetchFailure(resp) # NoError
                  THEN Append(Append(issued, query), query)
                  ELSE Append(issued, query))
    /\ response' = resp

\* fetch_metric_report posts the query and reads the response
Post(query, resp) ==
    /\ issued' = Append(issued, query)
    /\ response' = resp

\* st.error(message); st.stop()
Stop(message) ==
    /\ error' = message
    /\ pc' = "stopped"

\* FetchSessionsUsers treating a missing row as zero counts, as lines 472-477
\* do for the transactions
FetchSessionsUsers_ZeroDefault(S, U) ==
    /\ pc = "sessions_users"
    /\ UNCHANGED <<clicked, export>>
    /\ \E resp \in Responses({<<>>} \cup BaselineRows(S, U)) :
        /\ Post(SessionsUsersQuery, resp)
        /\ IF FetchFailure(resp) # NoError
           THEN /\ Stop(FetchFailure(resp))
                /\ UNCHANGED section1
           ELSE /\ sessions_users_data' = resp
                /\ total_sessions' = (IF HasRows(resp) THEN resp.rows[1].metricValues[1] ELSE 0)
                /\ total_users' = (IF HasRows(resp) THEN resp.rows[1].metricValues[2] ELSE 0)
                /\ \E up \in Sides(total_sessions', total_users', 100) :
                      sessions_per_user' = SessionsPerUser(total_sessions', total_users', up)
                /\ pc' = "channel"
                /\ UNCHANGED error
    /\ UNCHANGED <<section2, section3, section4, output>>

\* lines 422-430
FetchSessionsUsers(S, U) ==
    /\ pc = "sessions_users"
    /\ UNCHANGED <<clicked, export>>
    /\ \E resp \in Responses({<<>>} \cup BaselineRows(S, U)) :
        /\ Post(SessionsUsersQuery, resp)
        /\ IF FetchFailure(resp) # NoError
           THEN /\ Stop(FetchFailure(resp))
                /\ UNCHANGED section1
           ELSE /\ sessions_users_data' = resp
                /\ IF HasRows(resp)
                   THEN LET s == resp.rows[1].metricValues[1]
                            u == resp.rows[1].metricValues[2]
                        IN  /\ total_sessions' = s
                            /\ total_users' = u
                            /\ \E up \in Sides(s, u, 100) :
                                  sessions_per_user' = SessionsPerUser(s, u, up)
                            /\ pc' = "channel"
                            /\ UNCHANGED error
                   ELSE /\ Stop("Failed to retrieve sessions and users data")
                        /\ UNCHANGED <<total_sessions, total_users, sessions_per_user>>
    /\ UNCHANGED <<section2, section3, section4, output>>

\* lines 437-450
FetchChannel(rowsets) ==
    /\ pc = "channel"
    /\ UNCHANGED <<clicked, export>>
    /\ \E resp \in Responses(rowsets) :
        /\ Post(ChannelQuery, resp)
        /\ IF FetchFailure(resp) # NoError
           THEN /\ Stop(FetchFailure(resp))
                /\ UNCHANGED <<channel_data, unassigned_sessions,
                               total_sessions_from_channels, percent_unassigned>>
           ELSE /\ channel_data' = resp
                /\ unassigned_sessions' = UnassignedSessions(GetRows(resp))
                /\ total_sessions_from_channels' = SumSessions(GetRows(resp))
                /\ \E up \in Sides(UnassignedSessions(GetRows(resp)), total_sessions, 10000) :
                      percent_unassigned' =
                          PercentUnassigned(unassigned_sessions', total_sessions, up)
                /\ pc' = "unassigned_medium"
                /\ UNCHANGED error
    /\ UNCHANGED <<section1, unassigned_medium_data, unassigned_mediums,
                   section3, section4, output>>

\* lines 453-463
FetchUnassignedMedium ==
    /\ pc = "unassigned_medium"
    /\ UNCHANGED <<clicked, export>>
    /\ \E resp \in Responses(Orderings(MediumSample) \ {<<>>}) :
        /\ Post(UnassignedMediumQuery, resp)
        /\ IF FetchFailure(resp) # NoError
           THEN /\ Stop(FetchFailure(resp))
                /\ UNCHANGED <<unassigned_medium_data, unassigned_mediums>>
           ELSE /\ unassigned_medium_data' = resp
                /\ unassigned_mediums' = MediumBreakdown(GetRows(resp))
                /\ pc' = "transactions_revenue"
                /\ UNCHANGED error
    /\ UNCHANGED <<section1, channel_data, unassigned_sessions,
                   total_sessions_from_channels, percent_unassigned,
                   section3, section4, output>>

\* FetchTransactionsRevenue stopping the run on a response without a row, as
\* lines 426-431 do for the baseline
FetchTransactionsRevenue_RequiresRow ==
    /\ pc = "transactions_revenue"
    /\ UNCHANGED <<clicked, export>>
    /\ \E resp \in Responses(TransactionsSample) :
        /\ Post(TransactionsRevenueQuery, resp)
        /\ IF FetchFailure(resp) # NoError
           THEN /\ Stop(FetchFailure(resp))
                /\ UNCHANGED <<transactions_revenue_data, total_transactions, total_revenue>>
           ELSE IF ~HasRows(resp)
           THEN /\ Stop("No transaction data returned from GA4.")
                /\ transactions_revenue_data' = resp
                /\ UNCHANGED <<total_transactions, total_revenue>>
           ELSE /\ transactions_revenue_data' = resp
                /\ total_transactions' = resp.rows[1].metricValues[1]
                /\ total_revenue' = resp.rows[1].metricValues[2]
                /\ pc' = "transaction_id"
                /\ UNCHANGED error
    /\ UNCHANGED <<section1, section2, transaction_id_data, duplicate_transaction_ids,
                   section4, output>>

\* lines 470-477
FetchTransactionsRevenue ==
    /\ pc = "transactions_revenue"
    /\ UNCHANGED <<clicked, export>>
    /\ \E resp \in Responses(TransactionsSample) :
        /\ Post(TransactionsRevenueQuery, resp)
        /\ IF FetchFailure(resp) # NoError
           THEN /\ Stop(FetchFailure(resp))
                /\ UNCHANGED <<transactions_revenue_data, total_transactions, total_revenue>>
           ELSE /\ transactions_revenue_data' = resp
                /\ total_transactions' =
                      (IF HasRows(resp) THEN resp.rows[1].metricValues[1] ELSE 0)
                /\ total_revenue' =
                      (IF HasRows(resp) THEN resp.rows[1].metricValues[2] ELSE 0)
                /\ pc' = "transaction_id"
                /\ UNCHANGED error
    /\ UNCHANGED <<section1, section2, transaction_id_data, duplicate_transaction_ids,
                   section4, output>>

\* lines 480-490
FetchTransactionIds ==
    /\ pc = "transaction_id"
    /\ UNCHANGED <<clicked, export>>
    /\ \E resp \in Responses(Orderings(DuplicateSample)) :
        /\ Post(TransactionIdQuery, resp)
        /\ IF FetchFailure(resp) # NoError
           THEN /\ Stop(FetchFailure(resp))
                /\ UNCHANGED <<transaction_id_data, duplicate_transaction_ids>>
           ELSE /\ transaction_id_data' = resp
                /\ duplicate_transaction_ids' = DuplicateTransactions(GetRows(resp))
                /\ pc' = "funnel"
                /\ UNCHANGED error
    /\ UNCHANGED <<section1, section2, transactions_revenue_data, total_transactions,
                   total_revenue, section4, output>>

\* lines 511-675, which follow the last funnel query without another call:
\* the summary, the result sections, the export options, the CSV rows and
\* the insights, f being the completed funnel_data
Render(f) ==
    /\ audit_data' = << [total_sessions |-> total_sessions,
                         total_users |-> total_users,
                         sessions_per_user |-> sessions_per_user,
                         unassigned_sessions |-> unassigned_sessions,
                         percent_unassigned |-> percent_unassigned,
                         total_transactions |-> total_transactions,
                         total_revenue |-> total_revenue] >>
    /\ display' = <<"Sessions and Users Analysis", "Unassigned Traffic Analysis",
                    "Transactions and Revenue Analysis", "Conversion Funnel Analysis",
                    "Export Options", "Key Insights">>
    /\ \E up \in RateSides(f) : rates' = FunnelRates(f, up)
    /\ csv_audit_data' =
          CsvRows(BaseRows(total_sessions, total_users, sessions_per_user,
                           unassigned_sessions, percent_unassigned,
                           total_transactions, total_revenue, f),
                  unassigned_mediums, duplicate_transaction_ids)
    /\ insights' = Insights(sessions_per_user, percent_unassigned,
                            duplicate_transaction_ids, f)
    /\ healthy' = (Insights(sessions_per_user, percent_unassigned,
                            duplicate_transaction_ids, f) = <<>>)

\* one iteration of the loop of lines 500-509; after the last one the script
\* runs on to the end of the report
FetchFunnelEvent ==
    /\ pc = "funnel"
    /\ UNCHANGED <<clicked, export>>
    /\ LET event == funnel_events[Len(issued) - 4]
       IN  \E resp \in Responses({<<Row(<<>>, <<FunnelSample(event)>>)>>}) :
            /\ Post(EventQuery(event), resp)
            /\ IF FetchFailure(resp) # NoError
               THEN /\ Stop(FetchFailure(resp))
                    /\ UNCHANGED <<section4, output>>
               ELSE /\ event_data' = resp
                    /\ funnel_data' = funnel_data @@ (event :> EventCount(resp))
                    /\ UNCHANGED error
                    /\ IF event = "purchase"
                       THEN /\ Render(funnel_data @@ (event :> EventCount(resp)))
                            /\ pc' = "rendered"
                       ELSE /\ pc' = "funnel"
                            /\ UNCHANGED output
    /\ UNCHANGED <<section1, section2, section3>>

Next ==
    \/ ClickRunAudit
    \/ FetchSessionsUsers(0..MaxSessions, 0..MaxUsers)
    \/ FetchChannel(Orderings(ChannelSample))
    \/ FetchUnassignedMedium
    \/ FetchTransactionsRevenue
    \/ FetchTransactionIds
    \/ FetchFunnelEvent
    \/ ClickPushToSheets

Spec == Init /\ [][Next]_vars

\* sections 1 and 2 of a run over a wide range of counts: the baseline row and
\* the row of channel "Unassigned"
WideChannelRows == {<<>>} \cup { <<Row(<<"Unassigned">>, <<c>>)>> : c \in 0..MaxWide }

NextWide ==
    \/ ClickRunAudit
    \/ FetchSessionsUsers(0..MaxWide, 0..MaxWide)
    \/ FetchChannel(WideChannelRows)

SpecWide == Init /\ [][NextWide]_vars

----------------------------------------------------------------------------
(* The spreadsheet export: get_google_sheets_auth, extract_sheet_id_from_url *)
(* and push_to_google_sheet, called with any locator and any results.        *)

\* longest sheet URL, in characters of UrlChars
MaxUrlLen == 3

\* the characters of a sheet URL: "P" stands for the text "/spreadsheets/d/",
\* "a" for a character of [a-zA-Z0-9-_], "/" for any other character
UrlChars == {"P", "a", "/"}
IdChars == {"a"}
Urls == UNION { [1..n -> UrlChars] : n \in 0..MaxUrlLen }

\* the end of the longest run of identifier characters that starts at i
RECURSIVE RunEnd(_, _)
RunEnd(url, i) ==
    IF i < Len(url) /\ url[i + 1] \in IdChars THEN RunEnd(url, i + 1) ELSE i

\* where r'/spreadsheets/d/([a-zA-Z0-9-_]+)' matches in url
Matches(url) ==
    { i \in 1..Len(url) : url[i] = "P" /\ i < Len(url) /\ url[i + 1] \in IdChars }

\* extract_sheet_id_from_url taking a locator without the pattern as the
\* identifier itself
extract_sheet_id_from_url_BareId(url) ==
    IF Matches(url) = {}
    THEN (IF url = <<>> THEN <<>> ELSE <<url>>)
    ELSE LET i == CHOOSE m \in Matches(url) : \A n \in Matches(url) : m <= n
         IN  <<SubSeq(url, i + 1, RunEnd(url, i + 1))>>

\* re.search: group 1 of the leftmost match, <<>> for None
extract_sheet_id_from_url(url) ==
    IF Matches(url) = {}
    THEN <<>>
    ELSE LET i == CHOOSE m \in Matches(url) : \A n \in Matches(url) : m <= n
         IN  <<SubSeq(url, i + 1, RunEnd(url, i + 1))>>

\* a google.oauth2 Credentials object built from an access token
Credentials(expired, refresh_token) ==
    [expired |-> expired, refresh_token |-> refresh_token]

\* Credentials.valid: the token is present and has not expired
Valid(creds) == ~creds.expired

\* get_google_sheets_auth keeping the stored credential when its refresh fails
get_google_sheets_auth_KeepsOnFailure(stored, refresh_ok) ==
    IF stored # <<>> /\ Valid(stored[1])
    THEN [stored |-> stored, refreshes |-> <<>>, ret |-> stored]
    ELSE IF stored # <<>> /\ stored[1].expired /\ stored[1].refresh_token
    THEN IF refresh_ok
         THEN [stored |-> <<Credentials(FALSE, TRUE)>>, refreshes |-> <<"refreshed">>,
               ret |-> <<Credentials(FALSE, TRUE)>>]
         ELSE [stored |-> stored, refreshes |-> <<"RefreshError">>, ret |-> <<>>]
    ELSE [stored |-> stored, refreshes |-> <<>>, ret |-> <<>>]

\* get_google_sheets_auth on st.session_state.sheets_creds = stored, refresh_ok
\* telling whether refresh(Request()) succeeds: the stored value it leaves, the
\* refresh calls it made and what it returns (<<>> is None)
get_google_sheets_auth(stored, refresh_ok) ==
    IF stored # <<>> /\ Valid(stored[1])
    THEN [stored |-> stored, refreshes |-> <<>>, ret |-> stored]
    ELSE IF stored # <<>> /\ stored[1].expired /\ stored[1].refresh_token
    THEN IF refresh_ok
         THEN [stored |-> <<Credentials(FALSE, TRUE)>>, refreshes |-> <<"refreshed">>,
               ret |-> <<Credentials(FALSE, TRUE)>>]
         ELSE [stored |-> <<>>, refreshes |-> <<"RefreshError">>, ret |-> <<>>]
    ELSE [stored |-> stored, refreshes |-> <<>>, ret |-> <<>>]

\* the record of one call of get_google_sheets_auth
AuthCall(stored, refresh_ok) ==
    [called |-> TRUE, before |-> stored,
     refreshes |-> get_google_sheets_auth(stored, refresh_ok).refreshes,
     after |-> get_google_sheets_auth(stored, refresh_ok).stored,
     ret |-> get_google_sheets_auth(stored, refresh_ok).ret]

\* a cell value written to the sheet: a text, or a number and how it is shown
SheetText(s) == [text |-> s, n |-> 0, fmt |-> "text"]
SheetNumber(n, fmt) == [text |-> "", n |-> n, fmt |-> fmt]

\* worksheet.update('<col><row>', value)
Update(col, row, value) ==
    [op |-> "update", range |-> <<col, row, col, row>>, value |-> value]

\* worksheet.format('<col><row>:<to_col><to_row>', bold)
Format(col, row, to_col, to_row) ==
    [op |-> "format", range |-> <<col, row, to_col, to_row>>, value |-> SheetText("bold")]

\* what a worksheet of the destination held before the export
Existing == <<Update("A", 1, SheetText("existing data"))>>

\* lines 214-220 and 233-239: the header and one row per entry, from row on
ListRows(header, labels, numbers, row) ==
    IF Len(labels) = 0 THEN <<>>
    ELSE <<Update("A", row, SheetText(header))>> \o
         [i \in 1..(2 * Len(labels)) |->
            IF i % 2 = 1
            THEN Update("A", row + (i + 1) \div 2, SheetText("- " \o labels[(i + 1) \div 2]))
            ELSE Update("B", row + i \div 2, SheetNumber(numbers[i \div 2], "int"))]

\* the number of sheet rows taken by a list of n entries (lines 214-221)
ListHeight(n) == IF n > 0 THEN n + 2 ELSE 1

\* lines 259-278: the rates block below the funnel rows, rate being <<>> or
\* <<the four rates>>
RateRows(rate, row) ==
    IF rate = <<>> THEN <<>>
    ELSE << Update("A", row + 1, SheetText("FUNNEL CONVERSION RATES:")),
            Update("A", row + 2, SheetText("View -> Cart")),
            Update("B", row + 2, SheetNumber(rate[1].view_to_cart, "percent")),
            Update("A", row + 3, SheetText("Cart -> Checkout")),
            Update("B", row + 3, SheetNumber(rate[1].cart_to_checkout, "percent")),
            Update("A", row + 4, SheetText("Checkout -> Purchase")),
            Update("B", row + 4, SheetNumber(rate[1].checkout_to_purchase, "percent")),
            Update("A", row + 5, SheetText("View -> Purchase")),
            Update("B", row + 5, SheetNumber(rate[1].view_to_purchase, "percent")) >>

\* lines 184-285: the worksheet calls of one export, in order; a holds the
\* results handed over, up the sides of the four roundings
SheetCalls(name, generated, a, up) ==
    LET s == a.audit_data[1]
        f == a.funnel_data
        m == a.unassigned_mediums
        d == a.duplicate_transaction_ids
        row3 == 13 + ListHeight(Len(m))
        row4 == row3 + 3 + ListHeight(Len(d))
    IN  << Update("A", 1, SheetText("GA4 Audit V2 Results - " \o name)),
           Update("A", 2, SheetText("Generated: " \o generated)),
           Update("A", 3, SheetText("")),
           Update("A", 4, SheetText("1. SESSIONS AND USERS ANALYSIS (Last 90 Days)")),
           Update("A", 5, SheetText("Metric")),
           Update("B", 5, SheetText("Value")),
           Update("A", 6, SheetText("Total Sessions")),
           Update("B", 6, SheetNumber(s.total_sessions, "int")),
           Update("A", 7, SheetText("Total Users")),
           Update("B", 7, SheetNumber(s.total_users, "int")),
           Update("A", 8, SheetText("Sessions per User")),
           Update("B", 8, SheetNumber(s.sessions_per_user, "hundredths")),
           Update("A", 10, SheetText("2. UNASSIGNED TRAFFIC ANALYSIS")),
           Update("A", 11, SheetText("Unassigned Sessions")),
           Update("B", 11, SheetNumber(s.unassigned_sessions, "int")),
           Update("A", 12, SheetText("Percent of Total Sessions")),
           Update("B", 12, SheetNumber(s.percent_unassigned, "percent")) >>
        \o ListRows("Session Medium Breakdown (Unassigned):",
                    [i \in 1..Len(m) |-> m[i].medium],
                    [i \in 1..Len(m) |-> m[i].sessions], 13)
        \o << Update("A", row3, SheetText("3. TRANSACTIONS AND REVENUE ANALYSIS")),
              Update("A", row3 + 1, SheetText("Total Transactions")),
              Update("B", row3 + 1, SheetNumber(s.total_transactions, "int")),
              Update("A", row3 + 2, SheetText("Total Revenue")),
              Update("B", row3 + 2, SheetNumber(s.total_revenue, "dollars")) >>
        \o ListRows("Duplicate Transaction IDs:",
                    [i \in 1..Len(d) |-> d[i].transaction_id],
                    [i \in 1..Len(d) |-> d[i].count], row3 + 3)
        \o << Update("A", row4, SheetText("4. CONVERSION FUNNEL ANALYSIS")),
              Update("A", row4 + 1, SheetText("View Item Events")),
              Update("B", row4 + 1, SheetNumber(f["view_item"], "int")),
              Update("A", row4 + 2, SheetText("Add to Cart Events")),
              Update("B", row4 + 2, SheetNumber(f["add_to_cart"], "int")),
              Update("A", row4 + 3, SheetText("Begin Checkout Events")),
              Update("B", row4 + 3, SheetNumber(f["begin_checkout"], "int")),
              Update("A", row4 + 4, SheetText("Purchase Events")),
              Update("B", row4 + 4, SheetNumber(f["purchase"], "int")) >>
        \o RateRows(FunnelRates(f, up), row4 + 5)
        \o << Format("A", 1, "B", 1), Format("A", 4, "A", 4), Format("A", 8, "A", 8),
              Format("A", 12, "A", 12), Format("A", 16, "A", 16) >>

\* datetime.now() at lines 169 and 185, as "%Y%m%d_%H%M%S" and "%Y-%m-%d %H:%M:%S"
Timestamps ==
    { [compact |-> "20260101_090000", iso |-> "2026-01-01 09:00:00"],
      [compact |-> "20260101_090001", iso |-> "2026-01-01 09:00:01"] }

\* f"GA4 Audit V2 - {timestamp}"
SheetName(ts) == "GA4 Audit V2 - " \o ts.compact

\* the spreadsheets a locator can designate: with the default sheet, with the
\* default sheet renamed, and with a worksheet that already has the name of
\* the first timestamp
Destinations ==
    { ("Sheet1" :> Existing),
      ("Data" :> Existing),
      ("Sheet1" :> Existing) @@ ("GA4 Audit V2 - 20260101_090000" :> Existing) }

\* the results of two runs: one with a medium, a duplicate and events, one
\* without any
ArgsSample ==
    { Args(<< [total_sessions |-> 3, total_users |-> 2, sessions_per_user |-> 150,
               unassigned_sessions |-> 1, percent_unassigned |-> 3333,
               total_transactions |-> 2, total_revenue |-> 3998] >>,
           [e \in {"view_item", "add_to_cart", "begin_checkout", "purchase"} |->
               FunnelSample(e)],
           << [medium |-> "(not set)", sessions |-> 1] >>,
           << [transaction_id |-> "TXN1", count |-> 3] >>),
      Args(<< [total_sessions |-> 0, total_users |-> 0, sessions_per_user |-> 0,
               unassigned_sessions |-> 0, percent_unassigned |-> 0,
               total_transactions |-> 0, total_revenue |-> 0] >>,
           [e \in {"view_item", "add_to_cart", "begin_checkout", "purchase"} |-> 0],
           <<>>, <<>>) }

\* (False, None) and (True, sheet_name)
Failure == [success |-> FALSE, sheet_name |-> <<>>]
Success(name) == [success |-> TRUE, sheet_name |-> <<name>>]

\* st.error(message) when there is one, and the return of result
Return(result, message) ==
    /\ push_result' = <<result>>
    /\ export_error' = message
    /\ xpc' = "returned"

\* the handler of lines 289-291
OuterExcept(exception) ==
    Return(Failure, "Error pushing to Google Sheets: " \o exception)

\* no export is running
ExportIdle == xpc = "none"

\* the Google Sheets OAuth callback of lines 329-348 stores a new credential,
\* with or without a refresh token; the script goes on to line 351
SheetsOAuthCallback ==
    /\ ExportIdle
    /\ \E refresh_token \in BOOLEAN :
        /\ auth' = AuthCall(<<Credentials(FALSE, refresh_token)>>, TRUE)
        /\ sheets_creds' = auth'.after
    /\ UNCHANGED <<run, clicked, sheet_url, args, xpc, sheet_id, calls, book, sheet_name,
                   worksheet, todo, export_error, push_result>>

\* the access token of the stored credential reaches its expiry
TokenExpires ==
    /\ ExportIdle
    /\ sheets_creds # <<>>
    /\ Valid(sheets_creds[1])
    /\ sheets_creds' = <<Credentials(TRUE, sheets_creds[1].refresh_token)>>
    /\ UNCHANGED <<run, clicked, sheet_url, args, auth, xpc, sheet_id, calls, book,
                   sheet_name, worksheet, todo, export_error, push_result>>

\* line 351: every script run calls get_google_sheets_auth
LoadPage ==
    /\ ExportIdle
    /\ \E refresh_ok \in BOOLEAN :
        /\ auth' = AuthCall(sheets_creds, refresh_ok)
        /\ sheets_creds' = auth'.after
    /\ UNCHANGED <<run, clicked, sheet_url, args, xpc, sheet_id, calls, book, sheet_name,
                   worksheet, todo, export_error, push_result>>

\* push_to_google_sheet is called with a locator, the results of a run and a
\* destination behind the locator: lines 145-148
PushExtract ==
    /\ ExportIdle
    /\ \E url \in Urls, a \in ArgsSample, destination \in Destinations :
        /\ sheet_url' = url
        /\ args' = a
        /\ book' = destination
        /\ sheet_id' = extract_sheet_id_from_url(url)
        /\ IF extract_sheet_id_from_url(url) = <<>>
           THEN Return(Failure,
                       "Invalid Google Sheets URL. Please provide a valid Google Sheets URL.")
           ELSE /\ xpc' = "auth"
                /\ export_error' = NoError
                /\ push_result' = <<>>
    /\ calls' = <<>>
    /\ sheet_name' = ""
    /\ worksheet' = ""
    /\ todo' = <<>>
    /\ UNCHANGED <<run, clicked, sheets_creds, auth>>

\* lines 151-156
PushAuth ==
    /\ xpc = "auth"
    /\ \E refresh_ok \in BOOLEAN :
        /\ auth' = AuthCall(sheets_creds, refresh_ok)
        /\ sheets_creds' = auth'.after
        /\ calls' = calls \o [i \in 1..Len(auth'.refreshes) |-> <<"refresh", auth'.refreshes[i]>>]
        /\ IF auth'.ret = <<>>
           THEN Return(Failure,
                       "Google Sheets authentication required. Please authenticate first.")
           ELSE /\ xpc' = "open"
                /\ UNCHANGED <<export_error, push_result>>
    /\ UNCHANGED <<run, clicked, sheet_url, args, sheet_id, book, sheet_name, worksheet, todo>>

\* lines 159-166: client.open_by_key(sheet_id)
PushOpen ==
    /\ xpc = "open"
    /\ \E outcome \in {"ok", "SpreadsheetNotFound", "APIError", "ConnectionError"} :
        /\ calls' = Append(calls, <<"open_by_key", outcome>>)
        /\ CASE outcome = "ok" ->
                    /\ xpc' = "add"
                    /\ UNCHANGED <<export_error, push_result>>
             [] outcome = "SpreadsheetNotFound" ->
                    Return(Failure, "Spreadsheet not found. Please check the URL and " \o
                                    "ensure you have edit access.")
             [] outcome = "APIError" ->
                    Return(Failure, "Google Sheets API error: APIError")
             [] OTHER -> OuterExcept(outcome)
    /\ UNCHANGED <<run, clicked, sheet_url, args, sheets_creds, auth, sheet_id, book,
                   sheet_name, worksheet, todo>>

\* the worksheet calls of the handler of lines 174-178
FallbackCalls(name) ==
    << [op |-> "worksheet", range |-> <<"A", 1, "A", 1>>, value |-> SheetText("Sheet1")],
       [op |-> "clear", range |-> <<"A", 1, "A", 1>>, value |-> SheetText("")],
       Update("A", 1, SheetText(name)) >>

\* lines 168-178: spreadsheet.add_worksheet(title=sheet_name, rows=100, cols=10).
\* The destination creates the worksheet unless the title is taken; it reports
\* a rejection (title taken, no edit permission, quota) as gspread.APIError,
\* which only the handler of line 289 catches.  The handler of line 174 is
\* entered on gspread.WorksheetNotFound.
PushAddWorksheet ==
    /\ xpc = "add"
    /\ \E ts \in Timestamps, outcome \in {"ok", "APIError", "WorksheetNotFound"},
          up \in RateSides(args.funnel_data) :
        /\ outcome = "ok" => SheetName(ts) \notin DOMAIN book
        /\ sheet_name' = SheetName(ts)
        /\ calls' = Append(calls, <<"add_worksheet", outcome>>)
        /\ CASE outcome = "ok" ->
                    /\ book' = book @@ (SheetName(ts) :> <<>>)
                    /\ worksheet' = SheetName(ts)
                    /\ todo' = SheetCalls(SheetName(ts), ts.iso, args, up)
                    /\ xpc' = "write"
                    /\ UNCHANGED <<export_error, push_result>>
             [] outcome = "WorksheetNotFound" ->
                    /\ todo' = FallbackCalls(SheetName(ts)) \o
                               SheetCalls(SheetName(ts), ts.iso, args, up)
                    /\ xpc' = "write"
                    /\ UNCHANGED <<book, worksheet, export_error, push_result>>
             [] OTHER ->
                    /\ OuterExcept(outcome)
                    /\ UNCHANGED <<book, worksheet, todo>>
    /\ UNCHANGED <<run, clicked, sheet_url, args, sheets_creds, auth, sheet_id>>

\* the outcomes of one worksheet call
Outcomes(c) ==
    IF c.op = "worksheet"
    THEN {IF c.value.text \in DOMAIN book THEN "ok" ELSE "WorksheetNotFound"}
    ELSE {"ok", "APIError"}

\* the next worksheet call of lines 176-285, any exception of which is caught
\* at line 289; after the last call, line 287 returns
PushWrite ==
    /\ xpc = "write"
    /\ todo # <<>>
    /\ LET c == Head(todo)
       IN  \E outcome \in Outcomes(c) :
            /\ calls' = Append(calls, <<c.op, outcome>>)
            /\ IF outcome = "ok"
               THEN /\ todo' = Tail(todo)
                    /\ worksheet' = (IF c.op = "worksheet" THEN c.value.text ELSE worksheet)
                    /\ book' = (CASE c.op = "worksheet" -> book
                                  [] c.op = "clear" -> [book EXCEPT ![worksheet] = <<>>]
                                  [] OTHER -> [book EXCEPT ![worksheet] = Append(@, c)])
                    /\ IF Tail(todo) = <<>>
                       THEN Return(Success(sheet_name), NoError)
                       ELSE UNCHANGED <<xpc, export_error, push_result>>
               ELSE /\ OuterExcept(outcome)
                    /\ todo' = <<>>
                    /\ UNCHANGED <<book, worksheet>>
    /\ UNCHANGED <<run, clicked, sheet_url, args, sheets_creds, auth, sheet_id, sheet_name>>

\* the caller has the result (line 610): the names of the call are gone
PushDone ==
    /\ xpc = "returned"
    /\ xpc' = "none"
    /\ sheet_url' = <<>>
    /\ args' = Args(<<>>, <<>>, <<>>, <<>>)
    /\ sheet_id' = <<>>
    /\ calls' = <<>>
    /\ book' = <<>>
    /\ sheet_name' = ""
    /\ worksheet' = ""
    /\ todo' = <<>>
    /\ export_error' = NoError
    /\ push_result' = <<>>
    /\ UNCHANGED <<run, clicked, sheets_creds, auth>>

\* push_to_google_sheet and get_google_sheets_auth, called in any order with
\* any locator, any stored credential and any destination
InitExport ==
    /\ pc = "idle"
    /\ clicked = "none"
    /\ NoRun
    /\ NoExport

NextExport ==
    \/ SheetsOAuthCallback
    \/ TokenExpires
    \/ LoadPage
    \/ PushExtract
    \/ PushAuth
    \/ PushOpen
    \/ PushAddWorksheet
    \/ PushWrite
    \/ PushDone

SpecExport == InitExport /\ [][NextExport]_vars

----------------------------------------------------------------------------
(* The claims.                                                             *)

Abs(n) == IF n < 0 THEN -n ELSE n

\* r hundredths is num/den rounded to two decimals: no hundredth is nearer
Rounded2(r, num, den) == 2 * Abs(100 * num - r * den) <= den

\* the response body is not parseable or carries an error envelope
FetchFailed == ~response.json \/ response.has_error

NothingRendered ==
    /\ audit_data = <<>>
    /\ display = <<>>
    /\ rates = <<>>
    /\ csv_audit_data = <<>>
    /\ insights = <<>>
    /\ ~healthy

\* C1: when a metric fetch fails the run has stopped there with the error
\* shown, no AuditSummary exists and nothing of the results is rendered, and
\* the only step left is a new run: no later query of this run is posted.
C1_FetchFailureAbortsRun ==
    /\ [](FetchFailed => pc = "stopped" /\ error # NoError /\ NothingRendered)
    /\ [][FetchFailed => issued' = <<>> /\ pc' = "sessions_users"]_vars

C1_Witness ==
    /\ FetchFailed
    /\ Len(issued) = 7
    /\ issued[7] = EventQuery("add_to_cart")
    /\ pc = "stopped"

\* the sessions+users query returned without a failure
BaselineReturned == Len(issued) >= 1 /\ ~(Len(issued) = 1 /\ FetchFailed)

\* C2: when the sessions+users query succeeds without a row (no rows key, or
\* an empty list) the run has stopped with the missing-baseline error after
\* that one query, and nothing is rendered.
C2_MissingBaselineStops ==
    (BaselineReturned /\ (~sessions_users_data.has_rows \/ sessions_users_data.rows = <<>>))
        => /\ pc = "stopped"
           /\ error = "Failed to retrieve sessions and users data"
           /\ issued = <<SessionsUsersQuery>>
           /\ NothingRendered

C2_Witness ==
    /\ BaselineReturned
    /\ sessions_users_data.has_rows
    /\ sessions_users_data.rows = <<>>
    /\ pc = "stopped"

\* the baseline row was read
BaselineRead == BaselineReturned /\ pc # "stopped"

\* C3: sessions_per_user is sessions/users of the baseline row rounded to
\* two decimals when users > 0, and 0 when users = 0.
C3_SessionsPerUser ==
    BaselineRead =>
        /\ total_sessions = sessions_users_data.rows[1].metricValues[1]
        /\ total_users = sessions_users_data.rows[1].metricValues[2]
        /\ IF total_users > 0
           THEN Rounded2(sessions_per_user, total_sessions, total_users)
           ELSE sessions_per_user = 0

C3_Witness ==
    /\ BaselineRead
    /\ total_sessions = 5
    /\ total_users = 3
    /\ sessions_per_user = 167

\* the channel rows were aggregated
ChannelAggregated ==
    /\ Len(issued) >= 2
    /\ ~(Len(issued) = 2 /\ FetchFailed)

\* C4: percent_unassigned is 100*unassigned_sessions/total_sessions rounded
\* to two decimals when total_sessions > 0, and 0 when total_sessions = 0.
C4_PercentUnassigned ==
    ChannelAggregated =>
        IF total_sessions > 0
        THEN Rounded2(percent_unassigned, 100 * unassigned_sessions, total_sessions)
        ELSE percent_unassigned = 0

C4_Witness ==
    /\ ChannelAggregated
    /\ unassigned_sessions = 2
    /\ total_sessions = 3
    /\ percent_unassigned = 6667

\* the run reached the end of the report
Rendered == pc = "rendered"

\* r hundredths of a percent is the rate from stage count a to stage count b
StageRate(r, b, a) == IF a > 0 THEN Rounded2(r, 100 * b, a) ELSE r = 0

\* C5: every rendered report carries the four rates, each 100*count(B)/count(A)
\* of its own two stages when count(A) > 0 and 0 when count(A) = 0, whatever
\* the other counts are (also when view_item = 0).
C5_RatesOfEachStage ==
    Rendered =>
        /\ rates # <<>>
        /\ StageRate(rates[1].view_to_cart,
                     funnel_data["add_to_cart"], funnel_data["view_item"])
        /\ StageRate(rates[1].cart_to_checkout,
                     funnel_data["begin_checkout"], funnel_data["add_to_cart"])
        /\ StageRate(rates[1].checkout_to_purchase,
                     funnel_data["purchase"], funnel_data["begin_checkout"])
        /\ StageRate(rates[1].view_to_purchase,
                     funnel_data["purchase"], funnel_data["view_item"])

\* the rows a response carries
RowsOf(data) == IF data.has_rows THEN data.rows ELSE <<>>

UnassignedRowIndexes ==
    { i \in 1..Len(RowsOf(channel_data)) :
        RowsOf(channel_data)[i].dimensionValues[1] = "Unassigned" }

\* C6: unassigned_sessions is the session count of the channel row whose
\* channel is exactly "Unassigned" and 0 without such a row, whatever the other
\* rows hold; the run goes on without an error also when the channel sessions
\* do not add up to total_sessions.
C6_UnassignedSessions ==
    ChannelAggregated =>
        /\ \A i \in UnassignedRowIndexes :
              unassigned_sessions = RowsOf(channel_data)[i].metricValues[1]
        /\ UnassignedRowIndexes = {} => unassigned_sessions = 0
        /\ Len(issued) = 2 => pc = "unassigned_medium" /\ error = NoError

C6_Witness ==
    /\ ChannelAggregated
    /\ pc = "unassigned_medium"
    /\ RowsOf(channel_data) =
          << Row(<<"Unassigned">>, <<1>>), Row(<<"Organic Search">>, <<2>>) >>
    /\ unassigned_sessions = 1
    /\ total_sessions = 5
    /\ total_sessions_from_channels = 3

\* C7 as stated: an empty channel-grouping result yields unassigned_sessions
\* = 0, percent_unassigned = 0 and an empty MediumBreakdown.
C7_EmptyChannelsEmptyBreakdown ==
    (Rendered /\ RowsOf(channel_data) = <<>>)
        => /\ unassigned_sessions = 0
           /\ percent_unassigned = 0
           /\ unassigned_mediums = <<>>

\* C7 as amended: an empty channel-grouping result yields unassigned_sessions
\* = 0 and percent_unassigned = 0; the MediumBreakdown has one entry per row of
\* the unassigned-medium query, so it is empty exactly when that query
\* returned no rows.
C7_EmptyChannels ==
    (Rendered /\ RowsOf(channel_data) = <<>>)
        => /\ unassigned_sessions = 0
           /\ percent_unassigned = 0
           /\ audit_data[1].unassigned_sessions = 0
           /\ audit_data[1].percent_unassigned = 0
           /\ Len(unassigned_mediums) = Len(RowsOf(unassigned_medium_data))
           /\ unassigned_mediums = <<>> <=> RowsOf(unassigned_medium_data) = <<>>

C7_Witness ==
    /\ Rendered
    /\ channel_data.has_rows
    /\ channel_data.rows = <<>>
    /\ total_sessions = 5
    /\ percent_unassigned = 0
    /\ Len(unassigned_mediums) = 2

\* the rules of the table, in its order, with the conditions read off the
\* summary, the duplicate list and the funnel
RuleTable ==
    << [fires |-> audit_data[1].sessions_per_user < LowSessionsPerUser,
        text |-> LowEngagement],
       [fires |-> audit_data[1].percent_unassigned > HighPercentUnassigned,
        text |-> HighUnassigned],
       [fires |-> duplicate_transaction_ids # <<>>, text |-> DuplicatesDetected],
       [fires |-> funnel_data["purchase"] = 0, text |-> NoPurchases] >>

Fires(rule) == rule.fires

\* C8: the insight list is the subsequence, in table order, of the warnings
\* whose condition holds, each firing whatever the others do; the "all
\* healthy" confirmation is shown exactly when none of the four holds.
C8_Insights ==
    Rendered =>
        /\ Len(insights) = Len(SelectSeq(RuleTable, Fires))
        /\ \A i \in 1..Len(insights) : insights[i] = SelectSeq(RuleTable, Fires)[i].text
        /\ healthy <=> \A i \in 1..4 : ~RuleTable[i].fires

C8_Witness ==
    /\ Rendered
    /\ insights = <<LowEngagement, DuplicatesDetected>>
    /\ sessions_per_user = 0
    /\ percent_unassigned = 2000

\* the number of base metric rows of the CSV (seven of the summary, four of
\* the funnel)
NumBaseRows == 11

\* C9: the row file is the header (Metric, Value), the base metric rows ending
\* with the four funnel rows, one row per MediumBreakdown entry in order, then
\* one row per duplicate transaction in order, labeled with the transaction id
\* and carrying its count; it has NumBaseRows + |MediumBreakdown| +
\* |duplicate list| data rows.
C9_CsvRows ==
    Rendered =>
        LET m == Len(unassigned_mediums)
            d == Len(duplicate_transaction_ids)
        IN  /\ csv_audit_data[1] = <<"Metric", "Value">>
            /\ Len(csv_audit_data) = 1 + NumBaseRows + m + d
            /\ csv_audit_data[2] = <<"Total Sessions (L90)", Cell(total_sessions, "int")>>
            /\ csv_audit_data[8] = <<"Total Revenue (L90)", Cell(total_revenue, "cents")>>
            /\ \A k \in 1..4 :
                  csv_audit_data[1 + NumBaseRows - 4 + k][2]
                      = Cell(funnel_data[funnel_events[k]], "int")
            /\ csv_audit_data[1 + NumBaseRows][1] = "Purchase Events"
            /\ \A i \in 1..m :
                  csv_audit_data[1 + NumBaseRows + i] =
                      <<"Unassigned - " \o unassigned_mediums[i].medium,
                        Cell(unassigned_mediums[i].sessions, "int")>>
            /\ \A j \in 1..d :
                  csv_audit_data[1 + NumBaseRows + m + j] =
                      <<"Duplicate Transaction - " \o duplicate_transaction_ids[j].transaction_id,
                        Cell(duplicate_transaction_ids[j].count, "int")>>

C9_Witness ==
    /\ Rendered
    /\ Len(unassigned_mediums) = 2
    /\ Len(csv_audit_data) = 16
    /\ csv_audit_data[15] = <<"Duplicate Transaction - TXN1", Cell(3, "int")>>
    /\ csv_audit_data[16] = <<"Duplicate Transaction - TXN2", Cell(1, "int")>>

\* the duplicate-transaction rows were copied
DuplicatesCopied ==
    /\ Len(issued) >= 5
    /\ ~(Len(issued) = 5 /\ FetchFailed)

\* C10: the duplicate-transaction list is the sequence of (transaction id,
\* count) pairs of the rows the query returned, same length and order, nothing
\* dropped, merged or filtered again; no rows give the empty list and the run
\* goes on without an error.
C10_DuplicatesCopied ==
    DuplicatesCopied =>
        /\ Len(duplicate_transaction_ids) = Len(RowsOf(transaction_id_data))
        /\ \A i \in 1..Len(duplicate_transaction_ids) :
              /\ duplicate_transaction_ids[i].transaction_id
                    = RowsOf(transaction_id_data)[i].dimensionValues[1]
              /\ duplicate_transaction_ids[i].count
                    = RowsOf(transaction_id_data)[i].metricValues[1]
        /\ Len(issued) = 5 => pc = "funnel" /\ error = NoError

C10_Witness ==
    /\ DuplicatesCopied
    /\ pc = "funnel"
    /\ duplicate_transaction_ids =
          << [transaction_id |-> "TXN2", count |-> 1],
             [transaction_id |-> "TXN1", count |-> 3] >>


\* C14: an export that fails leaves the audit summary, the medium breakdown,
\* the duplicate list and the funnel summary of the run unchanged and still
\* displayed, so that the export can be triggered again or the row file
\* downloaded: a step of the "Push to Google Sheets" button changes none of
\* them and leaves the report rendered.
C14_ExportKeepsResults ==
    [][clicked' = "push_to_sheets" =>
          /\ UNCHANGED <<audit_data, unassigned_mediums, duplicate_transaction_ids,
                         funnel_data, display, csv_audit_data>>
          /\ pc' = "rendered"]_vars

\* the last response is a success that carries no row
NoRowReturned == ~FetchFailed /\ ~HasRows(response)

\* C15: a successful response with no row is not an error, for the
\* transactions+revenue query and for each of the four funnel queries: the
\* totals, respectively the count of the stage, are 0, no error is shown and
\* the run goes on to the next query (after the last one, to the report); a
\* rendered funnel summary has a count for exactly the four stages.
C15_NoRowIsZero ==
    /\ Len(issued) = 4 /\ NoRowReturned =>
          /\ total_transactions = 0
          /\ total_revenue = 0
          /\ error = NoError
          /\ pc = "transaction_id"
    /\ \A k \in 1..4 :
          Len(issued) = 5 + k /\ NoRowReturned =>
              /\ funnel_events[k] \in DOMAIN funnel_data
              /\ funnel_data[funnel_events[k]] = 0
              /\ error = NoError
              /\ pc = (IF k = 4 THEN "rendered" ELSE "funnel")
    /\ Rendered =>
          DOMAIN funnel_data = {"view_item", "add_to_cart", "begin_checkout", "purchase"}

\* a report rendered after the transactions query and the view_item and
\* purchase queries returned no row
C15_Witness ==
    /\ Rendered
    /\ ~HasRows(transactions_revenue_data)
    /\ total_transactions = 0
    /\ NoRowReturned
    /\ funnel_data["view_item"] = 0
    /\ funnel_data["add_to_cart"] = 400
    /\ funnel_data["purchase"] = 0

\* the nine queries of a run, in the order of lines 417-509
NineQueries ==
    <<SessionsUsersQuery, ChannelQuery, UnassignedMediumQuery,
      TransactionsRevenueQuery, TransactionIdQuery,
      EventQuery("view_item"), EventQuery("add_to_cart"),
      EventQuery("begin_checkout"), EventQuery("purchase")>>

\* C16: the queries of a run are issued in the fixed order baseline, channel
\* grouping, unassigned mediums, transactions+revenue, duplicate
\* transactions, view_item, add_to_cart, begin_checkout, purchase, each at
\* most once; a step issues at most one query; results are rendered only
\* after all nine were issued and none of them failed.
C16_FixedOrderThenRender ==
    /\ [](/\ Len(issued) <= 9
          /\ issued = SubSeq(NineQueries, 1, Len(issued))
          /\ \A i, j \in 1..Len(issued) : i # j => issued[i] # issued[j]
          /\ display # <<>> \/ audit_data # <<>> \/ csv_audit_data # <<>> => Rendered
          /\ Rendered => Len(issued) = 9 /\ error = NoError /\ ~FetchFailed)
    /\ [][\/ issued' = issued
          \/ issued' = <<>>
          \/ /\ Len(issued') = Len(issued) + 1
             /\ SubSeq(issued', 1, Len(issued)) = issued]_vars

\* a rendered report, the purchase query being the ninth issued
C16_Witness ==
    /\ Rendered
    /\ display # <<>>
    /\ Len(issued) = 9
    /\ issued[1] = SessionsUsersQuery
    /\ issued[9] = EventQuery("purchase")

\* the worksheet was created, respectively its creation was rejected
Created == \E i \in 1..Len(calls) : calls[i] = <<"add_worksheet", "ok">>
Rejected ==
    \E i \in 1..Len(calls) : calls[i][1] = "add_worksheet" /\ calls[i][2] # "ok"

\* the export turned to the default sheet
FellBack == \E i \in 1..Len(calls) : calls[i][1] \in {"worksheet", "clear"}

\* C11: as long as the creation of the worksheet succeeds the export writes
\* into the new worksheet and modifies no existing one; if and only if the
\* creation is rejected by the destination, the export falls back to the
\* default sheet instead of failing.
C11_FallbackIffRejected ==
    /\ Created =>
          /\ worksheet = sheet_name
          /\ \A w \in DOMAIN book \ {sheet_name} : book[w] = Existing
    /\ FellBack => Rejected
    /\ Rejected /\ xpc = "returned" => FellBack

\* the locator holds no "/spreadsheets/d/" followed by an identifier character
NoIdentifier(url) ==
    \A i \in 1..Len(url) : ~(url[i] = "P" /\ i < Len(url) /\ url[i + 1] \in IdChars)

\* C12: called with a locator that holds no identifier, push_to_google_sheet
\* returns (False, None) at once: no credential refresh, no open of the
\* spreadsheet and no worksheet call is made, the stored credential and the
\* destination are as they were.
C12_MalformedLocatorFailsFirst ==
    /\ [](xpc # "none" /\ NoIdentifier(sheet_url) =>
            /\ xpc = "returned"
            /\ push_result = <<Failure>>
            /\ calls = <<>>
            /\ book \in Destinations
            /\ export_error # NoError)
    /\ [][xpc = "none" /\ xpc' # "none" /\ NoIdentifier(sheet_url') =>
            UNCHANGED <<sheets_creds, auth>>]_vars

\* a locator with the prefix but no identifier behind it was refused while
\* the stored credential was expired and refreshable
C12_Witness ==
    /\ xpc = "returned"
    /\ sheet_url = <<"P", "/", "a">>
    /\ push_result = <<Failure>>
    /\ sheets_creds # <<>>
    /\ sheets_creds[1].expired
    /\ sheets_creds[1].refresh_token

\* C13: a call of get_google_sheets_auth refreshes at most once, and only an
\* expired credential that has a refresh token; when the refresh fails the
\* stored credential is None afterwards and the call returns None; the call
\* returns a credential only if the stored one was valid or the refresh of
\* this call succeeded, and it is the credential then stored.
C13_RefreshOnce ==
    auth.called =>
        /\ Len(auth.refreshes) <= 1
        /\ auth.refreshes # <<>> =>
              /\ auth.before # <<>>
              /\ auth.before[1].expired
              /\ auth.before[1].refresh_token
        /\ auth.refreshes = <<"RefreshError">> => auth.after = <<>> /\ auth.ret = <<>>
        /\ auth.ret # <<>> =>
              /\ auth.after = auth.ret
              /\ Valid(auth.ret[1])
              /\ \/ auth.before = auth.ret /\ auth.refreshes = <<>>
                 \/ auth.refreshes = <<"refreshed">>

\* an export that stopped because the refresh of the expired credential failed
C13_Witness ==
    /\ auth.called
    /\ auth.before # <<>>
    /\ auth.refreshes = <<"RefreshError">>
    /\ sheets_creds = <<>>
    /\ xpc = "returned"
    /\ calls = <<<<"refresh", "RefreshError">>>>
    /\ push_result = <<Failure>>

====
